---- MODULE Spec2Model ----
(***************************************************************************)
(* Verification model of the directory monitor:                            *)
(*   - AgenticMonitor._calculate_messiness_score  (directory_monitor.py)   *)
(*   - LocalDatabase (SQLite store)               (directory_monitor.py)   *)
(*   - AgenticMonitor.scan_and_alert              (directory_monitor.py)   *)
(*   - the continuous monitor of the web UI       (dir_monitor_ui.py)      *)
(*                                                                         *)
(* Scores are kept in tenths (5.0 is 50, 0.5 is 5, 0.3 is 3), so that the  *)
(* arithmetic of the scorer is exact integer arithmetic.                   *)
(***************************************************************************)
EXTENDS Integers, Sequences, FiniteSets, TLC

VARIABLES
    standards,          \* DevelopmentStandards.STANDARDS (the fields the scorer reads)
    snapshot,           \* the snapshot last handed to the scorer
    score,              \* the score last returned by the scorer
    snapshots,          \* table snapshots: sequence of rows, in rowid order
    analyses,           \* table analyses
    embeddings,         \* table embeddings
    last_insert_rowid,  \* sqlite3_last_insert_rowid of the shared connection
    last_call,          \* the last direct call of the store API and its outcome
    cache,              \* LocalVectorStore.cache: the entries of the list it refers to
    lists,              \* the list objects self.cache was bound to, oldest first;
                        \* the last one is the list self.cache refers to now
    EMBEDDINGS_AVAILABLE,
    monitoring_active,  \* dir_monitor_ui.monitoring_active
    pc,                 \* position of every thread
    frame,              \* locals of the scan_and_alert invocation of every thread
    results,            \* what completed scan_and_alert invocations returned
    nstarted            \* number of monitor_loop threads started so far

vars == <<standards, snapshot, score, snapshots, analyses, embeddings,
          last_insert_rowid, last_call, cache, lists, EMBEDDINGS_AVAILABLE,
          monitoring_active, pc, frame, results, nstarted>>

scorerVars  == <<standards, snapshot, score>>
tableVars   == <<snapshots, analyses, embeddings, last_insert_rowid>>
monitorVars == <<monitoring_active, nstarted>>
threadVars  == <<pc, frame, results>>
cacheVars   == <<cache, lists>>

----------------------------------------------------------------------------
(* Bounds of the model *)

MaxViolations == 10     \* most entries of naming_violations given to the scorer
MaxDepthObs   == 9      \* deepest key of depth_distribution
MaxLarge      == 8      \* most entries of largest_files
MaxRows       == 2      \* most rows of the snapshots table
MaxLoops      == 2      \* most monitor_loop threads ever started
MaxCalls      == 3      \* most direct calls of the store API
MaxCache      == 3      \* most entries of the cache handed to search
MaxTrendRows  == 2      \* most snapshots in the table the trend is taken of
MaxScans      == 52     \* most scans completed before a report is exported
MaxEntries    == 3      \* most entries of a walk of the watched tree
MaxDirs       == 2      \* most directories os.walk visits in a listed tree

----------------------------------------------------------------------------
(* Python built-ins *)

min(a, b) == IF a <= b THEN a ELSE b

\* max(d.keys()) of a non-empty set of integer keys
max(S) == CHOOSE x \in S : \A y \in S : y <= x

----------------------------------------------------------------------------
(* Snapshots as the scorer sees them: the lengths of naming_violations,    *)
(* largest_files and file_types, and the keys of depth_distribution.       *)

\* os.walk visits the root first, so the keys are 0..d; the mapping is empty
\* only when the walk yields nothing.
DepthDistributions == {{}} \cup {0..d : d \in 0..MaxDepthObs}

FileTypeCounts == {0, 15, 16}

ScorerSnapshots ==
    [naming_violations : 0..MaxViolations,
     depth_distribution : DepthDistributions,
     largest_files : 0..MaxLarge,
     file_types : FileTypeCounts]

Policies == [max_depth : {2, 5}]

NoSnapshot == [naming_violations |-> 0, depth_distribution |-> {},
               largest_files |-> 0, file_types |-> 0]

----------------------------------------------------------------------------
(* AgenticMonitor._calculate_messiness_score, in tenths *)

max_depth_observed(s) ==
    IF s.depth_distribution # {} THEN max(s.depth_distribution) ELSE 0

\* score += min(len(snapshot.naming_violations) * 0.5, 4.0)
violation_term(s) == min(s.naming_violations * 5, 40)

\* the mutant adds the difference with its sign flipped
depth_term_flipped(s, std) ==
    IF max_depth_observed(s) > std.max_depth
    THEN (std.max_depth - max_depth_observed(s)) * 5
    ELSE 0

\* if max_depth > standards['max_depth']: score += (max_depth - standards['max_depth']) * 0.5
depth_term(s, std) ==
    IF max_depth_observed(s) > std.max_depth
    THEN (max_depth_observed(s) - std.max_depth) * 5
    ELSE 0

\* the mutant forgets the cap of the oversized-file term
oversized_term_uncapped(s) == s.largest_files * 3

\* score += min(len(snapshot.largest_files) * 0.3, 2.0)
oversized_term(s) == min(s.largest_files * 3, 20)

\* if len(snapshot.file_types) > 15: score += 1.0
diversity_term(s) == IF s.file_types > 15 THEN 10 ELSE 0

\* the mutant returns the sum without the final clamp
clamp_missing(sum) == sum

\* return min(score, 10.0)
clamp(sum) == min(sum, 100)

_calculate_messiness_score(s, std) ==
    LET score0 == 0
        score1 == score0 + violation_term(s)
        score2 == score1 + depth_term(s, std)
        score3 == score2 + oversized_term(s)
        score4 == score3 + diversity_term(s)
    IN  clamp(score4)

----------------------------------------------------------------------------
(* The store: LocalDatabase over one SQLite connection.                    *)
(* A table is the sequence of its rows in rowid order; AUTOINCREMENT gives *)
(* a new row the rowid one above the largest the table ever held, and no   *)
(* statement of the program deletes a row, so that is Len(table) + 1.      *)

next_rowid(table) == Len(table) + 1

SnapshotIds == {snapshots[i].id : i \in 1..Len(snapshots)}

\* The connection is opened by sqlite3.connect(db_path) and no PRAGMA
\* foreign_keys is ever issued on it: SQLite then parses the FOREIGN KEY
\* clauses of _init_schema and does not enforce them.
foreign_keys == FALSE

\* whether INSERT INTO analyses / embeddings accepts the referenced id
fk_accepts(snapshot_id) == foreign_keys => snapshot_id \in SnapshotIds

snapshot_row(s, messiness_score) ==
    [id |-> next_rowid(snapshots), messiness_score |-> messiness_score,
     snapshot_data |-> s]

analysis_row(snapshot_id, analysis, alert) ==
    [id |-> next_rowid(analyses), snapshot_id |-> snapshot_id,
     llm_analysis |-> analysis, alert_triggered |-> alert]

embedding_row(snapshot_id, embedding) ==
    [id |-> next_rowid(embeddings), snapshot_id |-> snapshot_id,
     embedding |-> embedding]

\* the mutant is an INSERT OR REPLACE that reuses the id of the newest row
insert_snapshot_replacing(s, messiness_score) ==
    /\ snapshots' =
         IF snapshots = << >>
         THEN <<snapshot_row(s, messiness_score)>>
         ELSE [snapshots EXCEPT ![Len(snapshots)] =
                 [snapshot_row(s, messiness_score) EXCEPT !.id = Len(snapshots)]]
    /\ last_insert_rowid' = Len(snapshots')
    /\ UNCHANGED <<analyses, embeddings>>

\* the mutant reports a rowid one above the row it inserted
insert_snapshot_rowid_ahead(s, messiness_score) ==
    /\ snapshots' = Append(snapshots, snapshot_row(s, messiness_score))
    /\ last_insert_rowid' = next_rowid(snapshots) + 1
    /\ UNCHANGED <<analyses, embeddings>>

\* cursor.execute("INSERT INTO snapshots ...") and conn.commit()
insert_snapshot(s, messiness_score) ==
    /\ snapshots' = Append(snapshots, snapshot_row(s, messiness_score))
    /\ last_insert_rowid' = next_rowid(snapshots)
    /\ UNCHANGED <<analyses, embeddings>>

\* cursor.execute("INSERT INTO analyses ...") and conn.commit()
insert_analysis(snapshot_id, analysis, alert) ==
    /\ analyses' = Append(analyses, analysis_row(snapshot_id, analysis, alert))
    /\ last_insert_rowid' = next_rowid(analyses)
    /\ UNCHANGED <<snapshots, embeddings>>

\* cursor.execute("INSERT INTO embeddings ...") and conn.commit()
insert_embedding(snapshot_id, embedding) ==
    /\ embeddings' = Append(embeddings, embedding_row(snapshot_id, embedding))
    /\ last_insert_rowid' = next_rowid(embeddings)
    /\ UNCHANGED <<snapshots, analyses>>

\* SELECT e.snapshot_id, e.embedding, s.snapshot_data
\* FROM embeddings e JOIN snapshots s ON e.snapshot_id = s.id
RECURSIVE join_embeddings(_, _)
join_embeddings(es, ss) ==
    IF es = << >> THEN << >>
    ELSE LET e == es[1]
             rest == join_embeddings(Tail(es), ss)
         IN  IF e.snapshot_id \in {ss[i].id : i \in 1..Len(ss)}
             THEN <<[snapshot_id |-> e.snapshot_id, embedding |-> e.embedding,
                     snapshot |-> ss[e.snapshot_id].snapshot_data]>> \o rest
             ELSE rest

get_all_embeddings(es, ss) == join_embeddings(es, ss)

\* what sqlite3 returns for SQL NULL
None == "None"

\* the rows the LEFT JOIN of get_history yields for one snapshot: one for
\* every analysis that names it, or one with NULLs when none does
history_rows_of(s, as) ==
    LET matching == SelectSeq(as, LAMBDA a : a.snapshot_id = s.id)
    IN  IF matching = << >>
        THEN <<[timestamp |-> s.id, messiness_score |-> s.messiness_score,
                analysis |-> None, alert |-> None]>>
        ELSE [j \in 1..Len(matching) |->
                [timestamp |-> s.id, messiness_score |-> s.messiness_score,
                 analysis |-> matching[j].llm_analysis,
                 alert |-> IF matching[j].alert_triggered THEN 1 ELSE 0]]

\* ORDER BY s.timestamp DESC.  Callers that come one after the other store
\* their snapshots in the order of their timestamps, so the newest snapshot
\* is the last row of the table; a row's timestamp is kept as its id.
RECURSIVE history_rows(_, _)
history_rows(ss, as) ==
    IF ss = << >> THEN << >>
    ELSE history_rows_of(ss[Len(ss)], as)
            \o history_rows(SubSeq(ss, 1, Len(ss) - 1), as)

\* LocalDatabase.get_history(limit): ... LIMIT ?
get_history(ss, as, limit) ==
    LET rows == history_rows(ss, as)
    IN  SubSeq(rows, 1, min(limit, Len(rows)))

RECURSIVE sum_scores(_)
sum_scores(ss) ==
    IF ss = << >> THEN 0
    ELSE ss[1].messiness_score + sum_scores(Tail(ss))

\* round(p / q, 0) of Python for p >= 0 and q > 0: to the nearest integer,
\* a tie to the even one
round_half_even(p, q) ==
    LET f == p \div q
        r == p % q
    IN  IF 2 * r < q THEN f
        ELSE IF 2 * r > q THEN f + 1
        ELSE IF f % 2 = 0 THEN f ELSE f + 1

\* COUNT(*) FROM snapshots
total_scans(ss) == Len(ss)

\* the mutant returns the sum where the average is meant
avg_messiness_sum(ss) ==
    IF total_scans(ss) = 0 THEN 0 ELSE 10 * sum_scores(ss)

\* round(AVG(messiness_score), 2) if AVG(...) else 0, in hundredths of a
\* point: AVG of no rows is NULL, scores are stored in tenths
avg_messiness(ss) ==
    IF total_scans(ss) = 0 THEN 0
    ELSE round_half_even(10 * sum_scores(ss), total_scans(ss))

\* round(MAX(messiness_score), 2) if MAX(...) else 0, in hundredths
max_messiness(ss) ==
    IF ss = << >> THEN 0
    ELSE 10 * max({ss[i].messiness_score : i \in 1..Len(ss)})

\* round(MIN(messiness_score), 2) if MIN(...) else 0, in hundredths
min_messiness(ss) ==
    IF ss = << >> THEN 0
    ELSE 10 * (CHOOSE m \in {ss[i].messiness_score : i \in 1..Len(ss)} :
                 \A i \in 1..Len(ss) : m <= ss[i].messiness_score)

\* LocalDatabase.get_stats()
get_stats(ss) ==
    [total_scans |-> total_scans(ss),
     avg_messiness |-> avg_messiness(ss),
     max_messiness |-> max_messiness(ss),
     min_messiness |-> min_messiness(ss)]

----------------------------------------------------------------------------
(* LocalVectorStore.  The text encoder is an external collaborator: it is  *)
(* a deterministic function of the text, and the text of a snapshot names  *)
(* its violations.  An embedding is kept as its cosine similarity to the   *)
(* one query the program ever issues, "messy directory violations".        *)

TOP_K == 2

\* self.model.encode(self._snapshot_to_text(snapshot))
encode(s) == IF s.naming_violations > 7 THEN 2 ELSE 1

\* np.dot(embedding, query_embedding) / (norm(embedding) * norm(query_embedding))
similarity(embedding) == embedding

\* the mutant puts an entry before the entries of equal similarity
insert_sorted_before_ties(x, sorted) ==
    LET before == {i \in 1..Len(sorted) :
                     similarity(sorted[i].embedding) > similarity(x.embedding)}
        n == Cardinality(before)
    IN  SubSeq(sorted, 1, n) \o <<x>> \o SubSeq(sorted, n + 1, Len(sorted))

\* results.sort(key=lambda x: x['similarity'], reverse=True): a stable sort,
\* entries of equal similarity keep the order of the cache
insert_sorted(x, sorted) ==
    LET before == {i \in 1..Len(sorted) :
                     similarity(sorted[i].embedding) >= similarity(x.embedding)}
        n == Cardinality(before)
    IN  SubSeq(sorted, 1, n) \o <<x>> \o SubSeq(sorted, n + 1, Len(sorted))

RECURSIVE sort_by_similarity(_)
sort_by_similarity(c) ==
    IF c = << >> THEN << >>
    ELSE insert_sorted(c[Len(c)], sort_by_similarity(SubSeq(c, 1, Len(c) - 1)))

\* the mutant forgets the slice
search_no_limit(c, top_k) == sort_by_similarity(c)

\* LocalVectorStore.search: [] on an empty cache, else results[:top_k]
search(c, top_k) ==
    IF c = << >> THEN << >>
    ELSE LET sorted == sort_by_similarity(c)
         IN  SubSeq(sorted, 1, min(top_k, Len(sorted)))

----------------------------------------------------------------------------
(* LocalLLM.generate.  The narrative service is external; what the model   *)
(* keeps of a call is the condition of the service when it is made.        *)

LlmStates == {"ok", "raises", "unavailable"}

Placeholders == {"Error with local LLM", "Local LLM not available"}

\* the mutant lets a failed call yield no text at all
generate_no_placeholder(llm) == IF llm = "ok" THEN "narrative" ELSE "none"

generate(llm) ==
    CASE llm = "ok"          -> "narrative"
      [] llm = "raises"      -> "Error with local LLM"
      [] llm = "unavailable" -> "Local LLM not available"

----------------------------------------------------------------------------
(* Threads.  Thread 0 is the foreground path (a request handler calling    *)
(* scan_and_alert); threads 1..MaxLoops are the monitor_loop threads, in   *)
(* the order they are started.  All of them share one AgenticMonitor and   *)
(* so one database connection and one vector store.                        *)

Foreground == 0
Loops      == 1..MaxLoops
Threads    == {Foreground} \cup Loops

\* positions inside scan_and_alert
ScanSteps == {"scan", "retrieve", "generate", "score", "save_snapshot",
              "lastrowid", "save_analysis", "add_snapshot"}

\* positions of a scan that has not yet inserted its snapshot row
BeforeInsert == {"scan", "retrieve", "generate", "score", "save_snapshot"}

LoopAlive(l) == pc[l] \notin {"unborn", "exited", "failed"}

\* ALERT_THRESHOLD of main(), and the literal every front end passes
DefaultThreshold == 50

\* thresholds a foreground caller of scan_and_alert passes
Thresholds == {30, DefaultThreshold}

\* STANDARDS["max_depth"]
DefaultMaxDepth == 5

\* what scan_directory may find under the watched path
ScanSnapshots ==
    {[naming_violations |-> 7, depth_distribution |-> 0..1,
      largest_files |-> 0, file_types |-> 0],
     [naming_violations |-> 8, depth_distribution |-> 0..7,
      largest_files |-> 0, file_types |-> 0]}

\* done lists the steps the invocation has taken so far, in order
EmptyFrame ==
    [alert_threshold |-> 0, snapshot |-> NoSnapshot, context |-> << >>,
     llm |-> "none", llm_analysis |-> "none", messiness_score |-> 0,
     snapshot_id |-> 0, snapshot_rowid |-> 0, analysis_rowid |-> 0,
     done |-> << >>]

\* the model lets a scan begin only while the snapshots table has room for it
HasRoom ==
    Len(snapshots) + Cardinality({t \in Threads : pc[t] \in BeforeInsert}) < MaxRows

\* the mutant compares with the default threshold, not the caller's
alert_fixed_threshold(messiness_score, alert_threshold) ==
    messiness_score >= DefaultThreshold

\* analysis['messiness_score'] >= alert_threshold, as passed to save_analysis
alert_persisted(messiness_score, alert_threshold) ==
    messiness_score >= alert_threshold

\* analysis['messiness_score'] >= alert_threshold, as returned in analysis['alert']
alert_returned(messiness_score, alert_threshold) ==
    messiness_score >= alert_threshold

\* where a thread goes when scan_and_alert returns: the request handler
\* answers, monitor_loop goes to time.sleep(300)
after_return(th) == IF th = Foreground THEN "idle" ELSE "sleep"

\* where a thread goes when scan_and_alert raises: api_scan answers 500,
\* monitor_loop prints the error and breaks
after_exception(th) == IF th = Foreground THEN "idle" ELSE "failed"

----------------------------------------------------------------------------
(* AgenticMonitor.scan_and_alert, step by step *)

\* a foreground caller enters scan_and_alert(alert_threshold)
foreground_scan ==
    /\ pc[Foreground] = "idle"
    /\ HasRoom
    /\ \E t \in Thresholds :
         frame' = [frame EXCEPT ![Foreground] =
                     [EmptyFrame EXCEPT !.alert_threshold = t]]
    /\ pc' = [pc EXCEPT ![Foreground] = "scan"]
    /\ UNCHANGED <<scorerVars, tableVars, last_call, cacheVars,
                   EMBEDDINGS_AVAILABLE, monitorVars, results>>

\* the mutant queries the vector store without looking whether there is one
after_scan_always_retrieve == "retrieve"

\* the mutant computes the score first and leaves the rest of the analysis out
after_scan_to_score == "score"

\* analyze_with_llm begins with "if self.vector_store:", which is None when
\* sentence-transformers could not be imported
after_scan == IF EMBEDDINGS_AVAILABLE THEN "retrieve" ELSE "generate"

\* snapshot = self.analyzer.scan_directory(), the tree on disk being one of trees
scan_directory(th, trees) ==
    /\ pc[th] = "scan"
    /\ \E s \in trees :
         frame' = [frame EXCEPT ![th].snapshot = s,
                                ![th].done = Append(@, "scan")]
    /\ pc' = [pc EXCEPT ![th] = after_scan]
    /\ UNCHANGED <<scorerVars, tableVars, last_call, cacheVars,
                   EMBEDDINGS_AVAILABLE, monitorVars, results>>

\* the mutant builds the context from every entry of the cache
retrieve_context_whole_cache(th) ==
    /\ pc[th] = "retrieve"
    /\ frame' = [frame EXCEPT
                   ![th].context =
                       LET similar == sort_by_similarity(cache)
                       IN  [i \in 1..Len(similar) |-> similar[i].snapshot_id],
                   ![th].done = Append(@, "retrieve")]
    /\ pc' = [pc EXCEPT ![th] = "generate"]
    /\ UNCHANGED <<scorerVars, tableVars, last_call, cacheVars,
                   EMBEDDINGS_AVAILABLE, monitorVars, results>>

\* analyze_with_llm: similar = self.vector_store.search(
\*     "messy directory violations", top_k=2) and the context built from it
retrieve_context(th) ==
    /\ pc[th] = "retrieve"
    /\ frame' = [frame EXCEPT
                   ![th].context =
                       LET similar == search(cache, TOP_K)
                       IN  [i \in 1..Len(similar) |-> similar[i].snapshot_id],
                   ![th].done = Append(@, "retrieve")]
    /\ pc' = [pc EXCEPT ![th] = "generate"]
    /\ UNCHANGED <<scorerVars, tableVars, last_call, cacheVars,
                   EMBEDDINGS_AVAILABLE, monitorVars, results>>

\* analyze_with_llm: analysis = self.llm.generate(prompt, max_tokens=800),
\* the model server being in one of the conditions llms
llm_generate(th, llms) ==
    /\ pc[th] = "generate"
    /\ \E llm \in llms :
         frame' = [frame EXCEPT ![th].llm = llm,
                                ![th].llm_analysis = generate(llm),
                                ![th].done = Append(@, "generate")]
    /\ pc' = [pc EXCEPT ![th] = "score"]
    /\ UNCHANGED <<scorerVars, tableVars, last_call, cacheVars,
                   EMBEDDINGS_AVAILABLE, monitorVars, results>>

\* analyze_with_llm: 'messiness_score': self._calculate_messiness_score(snapshot),
\* evaluated when the returned dictionary is built
calculate_score(th) ==
    /\ pc[th] = "score"
    /\ frame' = [frame EXCEPT
                   ![th].messiness_score =
                       _calculate_messiness_score(frame[th].snapshot, standards),
                   ![th].done = Append(@, "score")]
    /\ pc' = [pc EXCEPT ![th] = "save_snapshot"]
    /\ UNCHANGED <<scorerVars, tableVars, last_call, cacheVars,
                   EMBEDDINGS_AVAILABLE, monitorVars, results>>

\* analysis = self.analyze_with_llm(snapshot)
analyze_with_llm(th, llms) ==
    \/ retrieve_context(th)
    \/ llm_generate(th, llms)
    \/ calculate_score(th)

\* save_snapshot: the INSERT and the commit
save_snapshot_insert(th) ==
    /\ pc[th] = "save_snapshot"
    /\ insert_snapshot(frame[th].snapshot, frame[th].messiness_score)
    /\ frame' = [frame EXCEPT ![th].snapshot_rowid = next_rowid(snapshots),
                              ![th].done = Append(@, "save_snapshot")]
    /\ pc' = [pc EXCEPT ![th] = "lastrowid"]
    /\ UNCHANGED <<scorerVars, last_call, cacheVars,
                   EMBEDDINGS_AVAILABLE, monitorVars, results>>

\* save_snapshot: return cursor.lastrowid, which the sqlite3 module reads
\* from the connection after the statement has run
save_snapshot_return(th) ==
    /\ pc[th] = "lastrowid"
    /\ frame' = [frame EXCEPT ![th].snapshot_id = last_insert_rowid]
    /\ pc' = [pc EXCEPT ![th] = "save_analysis"]
    /\ UNCHANGED <<scorerVars, tableVars, last_call, cacheVars,
                   EMBEDDINGS_AVAILABLE, monitorVars, results>>

\* self.db.save_analysis(snapshot_id, llm_analysis, score >= alert_threshold)
save_analysis(th) ==
    /\ pc[th] = "save_analysis"
    /\ fk_accepts(frame[th].snapshot_id)
    /\ insert_analysis(frame[th].snapshot_id, frame[th].llm_analysis,
                       alert_persisted(frame[th].messiness_score,
                                       frame[th].alert_threshold))
    /\ frame' = [frame EXCEPT ![th].analysis_rowid = next_rowid(analyses),
                              ![th].done = Append(@, "save_analysis")]
    /\ pc' = [pc EXCEPT ![th] = "add_snapshot"]
    /\ UNCHANGED <<scorerVars, last_call, cacheVars,
                   EMBEDDINGS_AVAILABLE, monitorVars, results>>

\* self.cache = self.db.get_all_embeddings(): the attribute is bound to the
\* list get_all_embeddings built; the list it was bound to is left as it is
_load_cache(es, ss) ==
    /\ cache' = get_all_embeddings(es, ss)
    /\ lists' = Append(lists, cache')

\* the rest of scan_and_alert: the embedding when there is a vector store
\* (save_embedding, then the reload of the cache), the alert, the return
add_snapshot_and_return(th) ==
    /\ pc[th] = "add_snapshot"
    /\ IF EMBEDDINGS_AVAILABLE
       THEN /\ insert_embedding(frame[th].snapshot_id, encode(frame[th].snapshot))
            /\ _load_cache(embeddings', snapshots)
       ELSE UNCHANGED <<tableVars, cacheVars>>
    /\ results' = results \cup
         {[alert_threshold |-> frame[th].alert_threshold,
           messiness_score |-> frame[th].messiness_score,
           llm |-> frame[th].llm,
           llm_analysis |-> frame[th].llm_analysis,
           alert |-> alert_returned(frame[th].messiness_score,
                                    frame[th].alert_threshold),
           snapshot_id |-> frame[th].snapshot_id,
           snapshot_rowid |-> frame[th].snapshot_rowid,
           analysis_rowid |-> frame[th].analysis_rowid,
           done |-> IF EMBEDDINGS_AVAILABLE
                    THEN Append(frame[th].done, "add_snapshot")
                    ELSE frame[th].done]}
    /\ frame' = [frame EXCEPT ![th] = EmptyFrame]
    /\ pc' = [pc EXCEPT ![th] = after_return(th)]
    /\ UNCHANGED <<scorerVars, last_call, EMBEDDINGS_AVAILABLE, monitorVars>>

\* a statement on the database raises (sqlite3.OperationalError and the
\* like): scan_and_alert has no handler, the exception reaches its caller
db_raises(th) ==
    /\ \/ pc[th] \in {"save_snapshot", "save_analysis"}
       \/ pc[th] = "add_snapshot" /\ EMBEDDINGS_AVAILABLE
    /\ frame' = [frame EXCEPT ![th] = EmptyFrame]
    /\ pc' = [pc EXCEPT ![th] = after_exception(th)]
    /\ UNCHANGED <<scorerVars, tableVars, last_call, cacheVars,
                   EMBEDDINGS_AVAILABLE, monitorVars, results>>

----------------------------------------------------------------------------
(* The continuous monitor: /api/monitor/start, /api/monitor/stop and the   *)
(* monitor_loop thread of dir_monitor_ui.py; toggle_monitoring is the same *)
(* pair of requests behind the one key of dir_monitor_tui.py.              *)

\* monitoring_active = True; threading.Thread(target=monitor_loop).start()
start_loop ==
    /\ nstarted < MaxLoops
    /\ monitoring_active' = TRUE
    /\ nstarted' = nstarted + 1
    /\ pc' = [pc EXCEPT ![nstarted + 1] = "check"]

\* answers 'Already monitoring' and changes nothing while the flag is set
api_monitor_start ==
    /\ IF monitoring_active
       THEN UNCHANGED <<monitoring_active, nstarted, pc>>
       ELSE start_loop
    /\ UNCHANGED <<scorerVars, tableVars, last_call, cacheVars,
                   EMBEDDINGS_AVAILABLE, frame, results>>

api_monitor_stop ==
    /\ monitoring_active' = FALSE
    /\ UNCHANGED <<scorerVars, tableVars, last_call, cacheVars,
                   EMBEDDINGS_AVAILABLE, nstarted, threadVars>>

toggle_monitoring ==
    /\ IF monitoring_active
       THEN /\ monitoring_active' = FALSE
            /\ UNCHANGED <<nstarted, pc>>
       ELSE start_loop
    /\ UNCHANGED <<scorerVars, tableVars, last_call, cacheVars,
                   EMBEDDINGS_AVAILABLE, frame, results>>

\* the mutant loops without looking at the flag
loop_condition_ignored(flag) == TRUE

\* while monitoring_active:
loop_condition(flag) == flag

\* monitor_loop evaluates its while condition; when it holds the thread
\* goes on to call scan_and_alert(alert_threshold=5.0)
loop_check(l) ==
    /\ pc[l] = "check"
    /\ IF loop_condition(monitoring_active)
       THEN /\ HasRoom
            /\ pc' = [pc EXCEPT ![l] = "scan"]
            /\ frame' = [frame EXCEPT ![l] =
                           [EmptyFrame EXCEPT !.alert_threshold = DefaultThreshold]]
       ELSE /\ pc' = [pc EXCEPT ![l] = "exited"]
            /\ UNCHANGED frame
    /\ UNCHANGED <<scorerVars, tableVars, last_call, cacheVars,
                   EMBEDDINGS_AVAILABLE, monitorVars, results>>

\* time.sleep(300) returns
loop_wake(l) ==
    /\ pc[l] = "sleep"
    /\ pc' = [pc EXCEPT ![l] = "check"]
    /\ UNCHANGED <<scorerVars, tableVars, last_call, cacheVars,
                   EMBEDDINGS_AVAILABLE, monitorVars, frame, results>>

----------------------------------------------------------------------------
(* The program: one AgenticMonitor, a foreground path and the monitor      *)

InitScorer ==
    /\ snapshot = NoSnapshot
    /\ score = 0

\* a new database file, as _init_schema leaves it
InitStore ==
    /\ snapshots = << >>
    /\ analyses = << >>
    /\ embeddings = << >>
    /\ last_insert_rowid = 0
    /\ last_call = [op |-> "none", snapshot_id |-> 0, outcome |-> "none"]
    /\ cache = << >>
    /\ lists = <<cache>>

InitThreads ==
    /\ monitoring_active = FALSE
    /\ nstarted = 0
    /\ pc = [t \in Threads |-> IF t = Foreground THEN "idle" ELSE "unborn"]
    /\ frame = [t \in Threads |-> EmptyFrame]
    /\ results = {}

Init ==
    /\ standards = [max_depth |-> DefaultMaxDepth]
    /\ InitScorer
    /\ InitStore
    /\ InitThreads
    /\ EMBEDDINGS_AVAILABLE \in BOOLEAN

\* the steps of scan_and_alert that follow the two reads of the environment
StoreStep(th) ==
    \/ save_snapshot_insert(th)
    \/ save_snapshot_return(th)
    \/ save_analysis(th)
    \/ add_snapshot_and_return(th)
    \/ db_raises(th)

ThreadStep(th) ==
    \/ scan_directory(th, ScanSnapshots)
    \/ analyze_with_llm(th, LlmStates)
    \/ StoreStep(th)

LoopStep(l) ==
    \/ loop_check(l)
    \/ loop_wake(l)

Next ==
    \/ foreground_scan
    \/ \E th \in Threads : ThreadStep(th)
    \/ api_monitor_start
    \/ api_monitor_stop
    \/ toggle_monitoring
    \/ \E l \in Loops : LoopStep(l)

Spec == Init /\ [][Next]_vars

----------------------------------------------------------------------------
(* scan_and_alert called from one thread, one call after the other, as    *)
(* main() of directory_monitor.py and the scan key of the terminal UI do  *)

NextScan ==
    \/ foreground_scan
    \/ ThreadStep(Foreground)

SpecScan == Init /\ [][NextScan]_vars

----------------------------------------------------------------------------
(* The continuous monitor alone: the tree stays as it is, the model server *)
(* answers and sentence-transformers is not installed                      *)

MonitoredTree ==
    [naming_violations |-> 8, depth_distribution |-> 0..7,
     largest_files |-> 0, file_types |-> 0]

InitMonitor ==
    /\ standards = [max_depth |-> DefaultMaxDepth]
    /\ InitScorer
    /\ InitStore
    /\ InitThreads
    /\ EMBEDDINGS_AVAILABLE = FALSE

\* one step of a monitor_loop thread through its loop body or loop test;
\* no vector store exists here, so analyze_with_llm goes straight to generate
MonitorStep(l) ==
    \/ scan_directory(l, {MonitoredTree})
    \/ llm_generate(l, {"ok"})
    \/ calculate_score(l)
    \/ StoreStep(l)
    \/ LoopStep(l)

NextMonitor ==
    \/ \E l \in Loops : MonitorStep(l)
    \/ api_monitor_start
    \/ api_monitor_stop
    \/ toggle_monitoring

\* every monitor_loop thread that can take a step eventually takes one: the
\* threads are scheduled by the operating system and none waits for another
FairSpec ==
    /\ InitMonitor /\ [][NextMonitor]_vars
    /\ \A l \in Loops : WF_vars(MonitorStep(l))

----------------------------------------------------------------------------
(* The scorer alone, on every snapshot and policy of the bounds *)

score_call ==
    /\ last_call.op = "none"
    /\ last_call' = [last_call EXCEPT !.op = "_calculate_messiness_score"]
    /\ \E s \in ScorerSnapshots :
         /\ snapshot' = s
         /\ score' = _calculate_messiness_score(s, standards)
    /\ UNCHANGED <<standards, tableVars, cacheVars,
                   EMBEDDINGS_AVAILABLE, monitorVars, threadVars>>

InitScore ==
    /\ standards \in Policies
    /\ InitScorer
    /\ InitStore
    /\ InitThreads
    /\ EMBEDDINGS_AVAILABLE = FALSE

NextScore == score_call

SpecScore == InitScore /\ [][NextScore]_vars

----------------------------------------------------------------------------
(* LocalVectorStore.search alone, on every cache and top_k of the bounds.  *)
(* A cache is what _load_cache left: one entry for every embedding row, in *)
(* the order the rows were stored.                                         *)

\* cosine similarities of the cached embeddings to the query
Similarities == {1, 2, 3}

Caches ==
    UNION {[1..n -> Similarities] : n \in 0..MaxCache}

cache_of(sims) ==
    [i \in 1..Len(sims) |->
       [snapshot_id |-> i, embedding |-> sims[i], snapshot |-> NoSnapshot]]

search_call ==
    /\ last_call.op = "none"
    /\ \E top_k \in 1..(MaxCache + 1) :
         last_call' = [op |-> "search", top_k |-> top_k,
                       outcome |-> search(cache, top_k)]
    /\ UNCHANGED <<scorerVars, tableVars, cacheVars, EMBEDDINGS_AVAILABLE,
                   monitorVars, threadVars>>

InitSearch ==
    /\ standards = [max_depth |-> DefaultMaxDepth]
    /\ InitScorer
    /\ snapshots = << >>
    /\ analyses = << >>
    /\ embeddings = << >>
    /\ last_insert_rowid = 0
    /\ last_call = [op |-> "none", snapshot_id |-> 0, outcome |-> "none"]
    /\ \E sims \in Caches : cache = cache_of(sims)
    /\ lists = <<cache>>
    /\ InitThreads
    /\ EMBEDDINGS_AVAILABLE = TRUE

NextSearch == search_call

SpecSearch == InitSearch /\ [][NextSearch]_vars

----------------------------------------------------------------------------
(* LocalVectorStore.search step by step beside LocalVectorStore.add_snapshot: *)
(* thread 0 is in analyze_with_llm and searches, thread 1 is at the end of   *)
(* scan_and_alert and adds the embedding of a snapshot it has stored.        *)

Searcher == Foreground
Reloader == 1

\* locals of search (first, last, list, index, results, outcome) and of
\* get_all_embeddings (rows, results); first and last are the number of list
\* objects there were when the search began and when it returned
ReloadFrame ==
    [first |-> 0, last |-> 0, list |-> 0, index |-> 0,
     rows |-> << >>, results |-> << >>, returned |-> FALSE, outcome |-> << >>]

\* if not self.cache: return []
search_if_cache(th) ==
    /\ pc[th] = "idle"
    /\ IF cache = << >>
       THEN /\ frame' = [frame EXCEPT ![th] =
                           [ReloadFrame EXCEPT !.first = Len(lists),
                                               !.last = Len(lists),
                                               !.returned = TRUE]]
            /\ pc' = pc
       ELSE /\ frame' = [frame EXCEPT ![th] =
                           [ReloadFrame EXCEPT !.first = Len(lists)]]
            /\ pc' = [pc EXCEPT ![th] = "search_for"]
    /\ UNCHANGED <<scorerVars, tableVars, last_call, cacheVars,
                   EMBEDDINGS_AVAILABLE, monitorVars, results>>

\* for snapshot_id, embedding, snapshot_data in self.cache: the attribute is
\* read once more and the loop iterates the list it refers to at that moment
search_for(th) ==
    /\ pc[th] = "search_for"
    /\ frame' = [frame EXCEPT ![th].list = Len(lists), ![th].index = 0]
    /\ pc' = [pc EXCEPT ![th] = "search_next"]
    /\ UNCHANGED <<scorerVars, tableVars, last_call, cacheVars,
                   EMBEDDINGS_AVAILABLE, monitorVars, results>>

\* one turn of the loop: the list iterator yields the entry at its index while
\* the index is below the length the list has now; when it is exhausted,
\* results.sort(key=..., reverse=True) and return results[:top_k]
search_next(th) ==
    /\ pc[th] = "search_next"
    /\ LET l == lists[frame[th].list]
           i == frame[th].index
           r == frame[th].results
       IN  IF i < Len(l)
           THEN /\ frame' = [frame EXCEPT ![th].results = Append(r, l[i + 1]),
                                          ![th].index = i + 1]
                /\ pc' = pc
           ELSE /\ frame' = [frame EXCEPT
                               ![th].outcome =
                                   SubSeq(sort_by_similarity(r), 1,
                                          min(TOP_K, Len(r))),
                               ![th].last = Len(lists),
                               ![th].returned = TRUE]
                /\ pc' = [pc EXCEPT ![th] = "idle"]
    /\ UNCHANGED <<scorerVars, tableVars, last_call, cacheVars,
                   EMBEDDINGS_AVAILABLE, monitorVars, results>>

\* add_snapshot: embedding = self.model.encode(text);
\* self.db.save_embedding(snapshot_id, embedding), for the oldest snapshot
\* that has no embedding yet
add_snapshot_save_embedding(th) ==
    /\ pc[th] = "add_snapshot"
    /\ Len(embeddings) < Len(snapshots)
    /\ LET snapshot_id == Len(embeddings) + 1
       IN  insert_embedding(snapshot_id,
                            encode(snapshots[snapshot_id].snapshot_data))
    /\ pc' = [pc EXCEPT ![th] = "fetchall"]
    /\ UNCHANGED <<scorerVars, last_call, cacheVars, EMBEDDINGS_AVAILABLE,
                   monitorVars, frame, results>>

\* get_all_embeddings: cursor.execute(SELECT ...); cursor.fetchall(); results = []
get_all_embeddings_fetchall(th) ==
    /\ pc[th] = "fetchall"
    /\ frame' = [frame EXCEPT
                   ![th] = [ReloadFrame EXCEPT
                              !.rows = get_all_embeddings(embeddings, snapshots)]]
    /\ pc' = [pc EXCEPT ![th] = "append"]
    /\ UNCHANGED <<scorerVars, tableVars, last_call, cacheVars,
                   EMBEDDINGS_AVAILABLE, monitorVars, results>>

\* the mutant empties the list self.cache refers to and refills it row by row
get_all_embeddings_append_in_place(th) ==
    /\ pc[th] = "append"
    /\ frame[th].rows # << >>
    /\ frame' = [frame EXCEPT
                   ![th].results = Append(@, Head(frame[th].rows)),
                   ![th].rows = Tail(@)]
    /\ lists' = [lists EXCEPT
                   ![Len(lists)] =
                       IF frame[th].results = << >>
                       THEN <<Head(frame[th].rows)>>
                       ELSE Append(@, Head(frame[th].rows))]
    /\ cache' = lists'[Len(lists')]
    /\ pc' = pc
    /\ UNCHANGED <<scorerVars, tableVars, last_call,
                   EMBEDDINGS_AVAILABLE, monitorVars, results>>

\* get_all_embeddings: for row in ...: results.append((row[0], ...)), on the
\* list that is local to the call
get_all_embeddings_append(th) ==
    /\ pc[th] = "append"
    /\ frame[th].rows # << >>
    /\ frame' = [frame EXCEPT
                   ![th].results = Append(@, Head(frame[th].rows)),
                   ![th].rows = Tail(@)]
    /\ pc' = pc
    /\ UNCHANGED <<scorerVars, tableVars, last_call, cacheVars,
                   EMBEDDINGS_AVAILABLE, monitorVars, results>>

\* get_all_embeddings: return results, and _load_cache: self.cache = <that list>
load_cache_assign(th) ==
    /\ pc[th] = "append"
    /\ frame[th].rows = << >>
    /\ cache' = frame[th].results
    /\ lists' = Append(lists, frame[th].results)
    /\ frame' = [frame EXCEPT ![th] = ReloadFrame]
    /\ pc' = [pc EXCEPT ![th] = "add_snapshot"]
    /\ UNCHANGED <<scorerVars, tableVars, last_call,
                   EMBEDDINGS_AVAILABLE, monitorVars, results>>

\* the snapshots a store holds after n scans, each with its analysis
ReloadTables ==
    UNION {[1..n -> ScanSnapshots] : n \in 1..MaxCache}

stored_snapshots(trees) ==
    [i \in 1..Len(trees) |->
       [id |-> i,
        messiness_score |->
            _calculate_messiness_score(trees[i], [max_depth |-> DefaultMaxDepth]),
        snapshot_data |-> trees[i]]]

stored_analyses(trees) ==
    [i \in 1..Len(trees) |->
       [id |-> i, snapshot_id |-> i, llm_analysis |-> "narrative",
        alert_triggered |->
            alert_persisted(
                _calculate_messiness_score(trees[i],
                                           [max_depth |-> DefaultMaxDepth]),
                DefaultThreshold)]]

stored_embeddings(trees, k) ==
    [i \in 1..k |-> [id |-> i, snapshot_id |-> i, embedding |-> encode(trees[i])]]

\* a store whose first k snapshots have their embedding, and a vector store
\* constructed on it (its __init__ calls _load_cache)
InitVectorStore ==
    /\ standards = [max_depth |-> DefaultMaxDepth]
    /\ InitScorer
    /\ \E trees \in ReloadTables : \E k \in 0..Len(trees) :
         /\ snapshots = stored_snapshots(trees)
         /\ analyses = stored_analyses(trees)
         /\ embeddings = stored_embeddings(trees, k)
    /\ last_insert_rowid = Len(analyses)
    /\ last_call = [op |-> "none", snapshot_id |-> 0, outcome |-> "none"]
    /\ cache = get_all_embeddings(embeddings, snapshots)
    /\ lists = <<cache>>
    /\ monitoring_active = FALSE
    /\ nstarted = 0
    /\ frame = [t \in Threads |-> ReloadFrame]
    /\ results = {}
    /\ EMBEDDINGS_AVAILABLE = TRUE

InitReload ==
    /\ InitVectorStore
    /\ pc = [t \in Threads |->
               IF t = Searcher THEN "idle"
               ELSE IF t = Reloader THEN "add_snapshot" ELSE "unborn"]

NextReload ==
    \/ search_if_cache(Searcher)
    \/ search_for(Searcher)
    \/ search_next(Searcher)
    \/ add_snapshot_save_embedding(Reloader)
    \/ get_all_embeddings_fetchall(Reloader)
    \/ get_all_embeddings_append(Reloader)
    \/ load_cache_assign(Reloader)

SpecReload == InitReload /\ [][NextReload]_vars

----------------------------------------------------------------------------
(* One scan_and_alert on a store that earlier scans have filled: every     *)
(* snapshot has its analysis and its embedding and the cache holds them    *)
(* all; the encoder is available and the model server answers              *)

InitRetrieve ==
    /\ standards = [max_depth |-> DefaultMaxDepth]
    /\ InitScorer
    /\ \E n \in 0..MaxCache : \E trees \in [1..n -> ScanSnapshots] :
         /\ snapshots = stored_snapshots(trees)
         /\ analyses = stored_analyses(trees)
         /\ embeddings = stored_embeddings(trees, n)
    /\ last_insert_rowid = Len(embeddings)
    /\ last_call = [op |-> "none", snapshot_id |-> 0, outcome |-> "none"]
    /\ cache = get_all_embeddings(embeddings, snapshots)
    /\ lists = <<cache>>
    /\ monitoring_active = FALSE
    /\ nstarted = 0
    /\ pc = [t \in Threads |-> IF t = Foreground THEN "scan" ELSE "unborn"]
    /\ frame = [t \in Threads |->
                  [EmptyFrame EXCEPT !.alert_threshold = DefaultThreshold]]
    /\ results = {}
    /\ EMBEDDINGS_AVAILABLE = TRUE

NextRetrieve ==
    \/ scan_directory(Foreground, ScanSnapshots)
    \/ analyze_with_llm(Foreground, {"ok"})
    \/ StoreStep(Foreground)

SpecRetrieve == InitRetrieve /\ [][NextRetrieve]_vars

----------------------------------------------------------------------------
(* LocalVectorStore.add_snapshot step by step in two threads at once: the  *)
(* foreground scan_and_alert and that of the monitor_loop thread both have *)
(* stored their snapshot and analysis and go on to add the embedding       *)

Adders == {Foreground, 1}

add_snapshot(th) ==
    \/ add_snapshot_save_embedding(th)
    \/ get_all_embeddings_fetchall(th)
    \/ get_all_embeddings_append(th)
    \/ load_cache_assign(th)

InitAdd ==
    /\ InitVectorStore
    /\ pc = [t \in Threads |-> IF t \in Adders THEN "add_snapshot" ELSE "unborn"]

NextAdd == \E th \in Adders : add_snapshot(th)

SpecAdd == InitAdd /\ [][NextAdd]_vars

----------------------------------------------------------------------------
(* TrendAnalyzer.get_statistics_summary (trend_graphs_module.py) on its    *)
(* own connection to the database file.  A timestamp is kept as the day it *)
(* falls on, counted from the day of the first query (day 0, earlier days  *)
(* negative).  snapshots.timestamp holds datetime.now().isoformat(), with  *)
(* a 'T' after the date, and is compared as text with datetime('now', ...) *)
(* of SQLite, which has a space there: on equal dates the stored timestamp *)
(* is the greater string, whatever the time of day.                        *)

\* datetime('now', '-7 days')
RecentDays == 7

\* datetime('now', '-14 days')
PriorDays == 14

\* WHERE timestamp >= datetime('now', '-7 days')
recent_rows(ss, today) ==
    SelectSeq(ss, LAMBDA r : r.day >= today - RecentDays)

\* WHERE timestamp BETWEEN datetime('now', '-14 days') AND datetime('now', '-7 days')
previous_rows(ss, today) ==
    SelectSeq(ss, LAMBDA r : r.day >= today - PriorDays /\ r.day < today - RecentDays)

\* cursor.fetchone()[0] or 0, the average kept as a fraction of tenths:
\* AVG over no rows is NULL
avg_or_zero(rows) ==
    IF rows = << >> THEN [num |-> 0, den |-> 1]
    ELSE [num |-> sum_scores(rows), den |-> Len(rows)]

less_than(a, b) == a.num * b.den < b.num * a.den

\* "improving" if recent_avg < previous_avg else "worsening" if
\* recent_avg > previous_avg else "stable"
trend_of(recent_avg, previous_avg) ==
    IF less_than(recent_avg, previous_avg) THEN "improving"
    ELSE IF less_than(previous_avg, recent_avg) THEN "worsening"
    ELSE "stable"

\* days on which the stored snapshots were taken, and their scores
TrendDays == {0, -7, -8, -14, -15}

TrendScores == {30, 48, 50}

TrendRows == [day : TrendDays, messiness_score : TrendScores]

\* tables whose rows are in the order of their timestamps, as scans that
\* follow one another leave them
TrendTables ==
    {t \in UNION {[1..n -> TrendRows] : n \in 0..MaxTrendRows} :
        \A i, j \in 1..Len(t) : i < j => t[i].day <= t[j].day}

\* the two AVG queries of get_statistics_summary, each with its own 'now':
\* midnight may pass between them
get_statistics_summary ==
    /\ last_call.op = "none"
    /\ \E today \in {0}, later \in {0, 1} :
         LET recent == recent_rows(snapshots, today)
             previous == previous_rows(snapshots, today + later)
         IN  last_call' =
               [op |-> "get_statistics_summary",
                recent |-> recent, previous |-> previous,
                outcome |->
                  [total_scans |-> total_scans(snapshots),
                   trend |-> trend_of(avg_or_zero(recent), avg_or_zero(previous)),
                   recent_avg |-> avg_or_zero(recent),
                   previous_avg |-> avg_or_zero(previous)]]
    /\ UNCHANGED <<scorerVars, tableVars, cacheVars, EMBEDDINGS_AVAILABLE,
                   monitorVars, threadVars>>

InitTrend ==
    /\ standards = [max_depth |-> DefaultMaxDepth]
    /\ InitScorer
    /\ \E t \in TrendTables :
         snapshots = [i \in 1..Len(t) |->
                        [id |-> i, messiness_score |-> t[i].messiness_score,
                         day |-> t[i].day]]
    /\ analyses = << >>
    /\ embeddings = << >>
    /\ last_insert_rowid = Len(snapshots)
    /\ last_call = [op |-> "none", snapshot_id |-> 0, outcome |-> "none"]
    /\ cache = << >>
    /\ lists = <<cache>>
    /\ InitThreads
    /\ EMBEDDINGS_AVAILABLE = FALSE

NextTrend == get_statistics_summary

SpecTrend == InitTrend /\ [][NextTrend]_vars

----------------------------------------------------------------------------
(* The report exporters, on the store that K scans which followed one      *)
(* another have left: export_report of directory_monitor.py writes a JSON  *)
(* file, /api/export of dir_monitor_ui.py answers with a JSON body.        *)

\* 'recent_history': self.get_history(20)
ReportHistory == 20

\* 'history': monitor.get_history(50)
ApiExportHistory == 50

\* json.dump of a dictionary given as its members in insertion order: the
\* text lists the members in that order
json_dump(members) == members

\* json.load: the dictionary of the members of the text, the last of two
\* members of one key winning
json_load(text) ==
    [k \in {text[i].key : i \in 1..Len(text)} |->
       LET last == max({i \in 1..Len(text) : text[i].key = k})
       IN  text[last].value]

\* AgenticMonitor.export_report: the text written to output_path
export_report_text ==
    json_dump(<<[key |-> "generated", value |-> "now"],
                [key |-> "statistics", value |-> get_stats(snapshots)],
                [key |-> "recent_history",
                 value |-> get_history(snapshots, analyses, ReportHistory)]>>)

\* api_export: the body of the response
api_export_text ==
    json_dump(<<[key |-> "generated", value |-> "now"],
                [key |-> "statistics", value |-> get_stats(snapshots)],
                [key |-> "history",
                 value |-> get_history(snapshots, analyses, ApiExportHistory)]>>)

\* export_report(), and the file read back
export_report ==
    /\ last_call.op = "none"
    /\ last_call' = [op |-> "export_report", text |-> export_report_text,
                     outcome |-> json_load(export_report_text)]
    /\ UNCHANGED <<scorerVars, tableVars, cacheVars, EMBEDDINGS_AVAILABLE,
                   monitorVars, threadVars>>

\* GET /api/export, and the body read back
api_export ==
    /\ last_call.op = "none"
    /\ last_call' = [op |-> "api_export", text |-> api_export_text,
                     outcome |-> json_load(api_export_text)]
    /\ UNCHANGED <<scorerVars, tableVars, cacheVars, EMBEDDINGS_AVAILABLE,
                   monitorVars, threadVars>>

\* the snapshot rows K scans of the monitored tree have left, the score
\* alternating between those of the two trees of ScanSnapshots
scanned_snapshots(K) ==
    [i \in 1..K |->
       [id |-> i, messiness_score |-> IF i % 2 = 1 THEN 35 ELSE 50,
        snapshot_data |-> NoSnapshot]]

\* the analysis rows of the same scans, one for every snapshot
scanned_analyses(K) ==
    [i \in 1..K |->
       [id |-> i, snapshot_id |-> i, llm_analysis |-> "narrative",
        alert_triggered |-> (i % 2 = 0)]]

InitExport ==
    /\ standards = [max_depth |-> DefaultMaxDepth]
    /\ InitScorer
    /\ \E K \in 0..MaxScans :
         /\ snapshots = scanned_snapshots(K)
         /\ analyses = scanned_analyses(K)
         /\ last_insert_rowid = K
    /\ embeddings = << >>
    /\ last_call = [op |-> "none", snapshot_id |-> 0, outcome |-> "none"]
    /\ cache = << >>
    /\ lists = <<cache>>
    /\ InitThreads
    /\ EMBEDDINGS_AVAILABLE = FALSE

NextExport ==
    \/ export_report
    \/ api_export

SpecExport == InitExport /\ [][NextExport]_vars

----------------------------------------------------------------------------
(* DirectoryAnalyzer.scan_directory: the counts and the structure hash.    *)
(* A walk is what os.walk yields, flattened into the order in which the    *)
(* loop meets the entries: a subdirectory that is kept, or a file with its *)
(* suffix and whether its name has a space.                                *)

Suffixes == {".py", ".TXT", ""}

WalkEntries ==
    {[kind |-> "dir"]} \cup [kind : {"file"}, suffix : Suffixes, space : BOOLEAN]

Walks == UNION {[1..n -> WalkEntries] : n \in 0..MaxEntries}

\* str.lower() on the suffixes of the model
lower(suffix) == IF suffix = ".TXT" THEN ".txt" ELSE suffix

\* ext = file_path.suffix.lower() or 'no_extension'
ext_of(file) ==
    IF lower(file.suffix) = "" THEN "no_extension" ELSE lower(file.suffix)

\* file_types[ext] += 1 on a dictionary kept as its items in insertion order
increment(file_types, ext) ==
    IF \E i \in 1..Len(file_types) : file_types[i].key = ext
    THEN [i \in 1..Len(file_types) |->
            IF file_types[i].key = ext
            THEN [file_types[i] EXCEPT !.value = @ + 1]
            ELSE file_types[i]]
    ELSE Append(file_types, [key |-> ext, value |-> 1])

\* the body of the loop over the walk, for one entry
scan_entry(acc, entry) ==
    IF entry.kind = "dir"
    THEN [acc EXCEPT !.total_dirs = @ + 1]
    ELSE [acc EXCEPT !.total_files = @ + 1,
                     !.file_types = increment(@, ext_of(entry)),
                     !.naming_violations =
                         IF entry.space THEN @ + 1 ELSE @]

RECURSIVE scan_walk(_, _)
scan_walk(acc, walk) ==
    IF walk = << >> THEN acc
    ELSE scan_walk(scan_entry(acc, walk[1]), Tail(walk))

\* the keys of the model in the order sorted() gives strings
SortedKeys == <<".py", ".txt", "dirs", "files", "no_extension", "types">>

\* the mutant leaves sort_keys out: the items stay in insertion order
items_unsorted(items) == items

\* sort_keys=True: the items of a dictionary by ascending key
items_sorted(items) ==
    LET present == SelectSeq(SortedKeys,
                     LAMBDA k : \E i \in 1..Len(items) : items[i].key = k)
    IN  [n \in 1..Len(present) |->
           CHOOSE it \in {items[i] : i \in 1..Len(items)} : it.key = present[n]]

\* json.dumps({'files': ..., 'dirs': ..., 'types': dict(file_types)},
\*            sort_keys=True)
structure_str(total_files, total_dirs, file_types) ==
    items_sorted(<<[key |-> "files", value |-> total_files],
                   [key |-> "dirs", value |-> total_dirs],
                   [key |-> "types", value |-> items_sorted(file_types)]>>)

\* hashlib.md5(structure_str.encode()).hexdigest(): the digest is kept as
\* the text it is taken of, two texts having one digest only when equal
md5(text) == text

\* the fields of the DirectorySnapshot the loop and the hash give
scan_counts(walk) ==
    LET acc == scan_walk([total_files |-> 0, total_dirs |-> 0,
                          file_types |-> << >>, naming_violations |-> 0], walk)
    IN  [total_files |-> acc.total_files,
         total_dirs |-> acc.total_dirs,
         file_types |-> acc.file_types,
         naming_violations |-> acc.naming_violations,
         structure_hash |->
             md5(structure_str(acc.total_files, acc.total_dirs, acc.file_types))]

scan_call ==
    /\ last_call.op = "none"
    /\ \E walk \in Walks :
         last_call' = [op |-> "scan_directory", walk |-> walk,
                       outcome |-> scan_counts(walk)]
    /\ UNCHANGED <<scorerVars, tableVars, cacheVars, EMBEDDINGS_AVAILABLE,
                   monitorVars, threadVars>>

InitHash ==
    /\ standards = [max_depth |-> DefaultMaxDepth]
    /\ InitScorer
    /\ InitStore
    /\ InitThreads
    /\ EMBEDDINGS_AVAILABLE = FALSE

NextHash == scan_call

SpecHash == InitHash /\ [][NextHash]_vars

----------------------------------------------------------------------------
(* DirectoryAnalyzer.scan_directory: the violations and the oversized      *)
(* files.  A tree is the directories os.walk visits, in the order of the   *)
(* walk; a directory is kept as its files in the order of the walk, here a *)
(* number of files of one sort or one of each.  A file is what the loop    *)
(* reads of it: the forbidden patterns its lower-cased name contains,      *)
(* whether the name has a space, and what stat() gives, the size in        *)
(* thousandths of a megabyte or an OSError.                                *)

\* STANDARDS['forbidden_patterns'], lower-cased
forbidden_patterns ==
    <<"untitled", "new folder", "copy of", "- copy",
      "temp", "tmp", "backup", "old", "~$">>

\* STANDARDS['max_files_per_dir']
max_files_per_dir == 20

\* STANDARDS['max_file_size_mb'], in thousandths of a megabyte
max_file_size_mb == 100000

\* naming_violations[:20]
ViolationsKept == 20

\* largest_files[:10]
LargestKept == 10

ListedFiles ==
    {[name |-> "main.py", contains |-> {}, space |-> FALSE,
      readable |-> TRUE, size |-> 1000],
     [name |-> "Old Temp.txt", contains |-> {"temp", "old"}, space |-> TRUE,
      readable |-> TRUE, size |-> 1000],
     [name |-> "edge.bin", contains |-> {}, space |-> FALSE,
      readable |-> TRUE, size |-> 100000],
     [name |-> "video.tmp", contains |-> {"tmp"}, space |-> FALSE,
      readable |-> TRUE, size |-> 100004],
     [name |-> "data.bin", contains |-> {}, space |-> FALSE,
      readable |-> TRUE, size |-> 150000],
     [name |-> "gone.bin", contains |-> {}, space |-> FALSE,
      readable |-> FALSE, size |-> 0]}

\* how many files a directory of the model holds
FileCounts == {1, 20, 25}

\* a directory that holds one file of every sort
MixedDir ==
    LET names == <<"gone.bin", "video.tmp", "data.bin", "edge.bin",
                   "Old Temp.txt", "main.py">>
    IN  [j \in 1..Len(names) |-> CHOOSE f \in ListedFiles : f.name = names[j]]

ListedDirs ==
    {<< >>, MixedDir}
    \cup {[j \in 1..n |-> f] : f \in ListedFiles, n \in FileCounts}

ListedTrees == UNION {[1..n -> ListedDirs] : n \in 1..MaxDirs}

\* the mutant reports a directory that is exactly at the limit as well
too_many_files_at_limit(files) == Len(files) >= max_files_per_dir

\* if len(files) > self.standards['max_files_per_dir']:
too_many_files(files) == Len(files) > max_files_per_dir

\* for pattern in forbidden_patterns: if pattern.lower() in file.lower(): ...
pattern_violations(rel_path, j, file) ==
    LET found == SelectSeq(forbidden_patterns, LAMBDA p : p \in file.contains)
    IN  [k \in 1..Len(found) |->
           [what |-> "Naming violation", pattern |-> found[k],
            path |-> <<rel_path, j>>]]

\* if self.standards['file_naming']['no_spaces'] and ' ' in file: ...
space_violations(rel_path, j, file) ==
    IF file.space
    THEN <<[what |-> "Space in filename", pattern |-> " ",
            path |-> <<rel_path, j>>]>>
    ELSE << >>

\* the mutant lists a file whose size is exactly the limit as well
oversized_entry_at_limit(rel_path, j, file) ==
    IF file.readable /\ file.size >= max_file_size_mb
    THEN <<[path |-> <<rel_path, j>>, size_mb |-> round_half_even(file.size, 10)]>>
    ELSE << >>

\* the try block: size = file_path.stat().st_size; size_mb = size / (1024 * 1024);
\* an entry with round(size_mb, 2), in hundredths, when size_mb is above the
\* limit; except OSError: pass
oversized_entry(rel_path, j, file) ==
    IF file.readable /\ file.size > max_file_size_mb
    THEN <<[path |-> <<rel_path, j>>, size_mb |-> round_half_even(file.size, 10)]>>
    ELSE << >>

\* the body of "for file in files", for the j-th file of the directory
scan_file(acc, rel_path, j, file) ==
    [acc EXCEPT
       !.total_files = @ + 1,
       !.naming_violations =
           @ \o pattern_violations(rel_path, j, file)
             \o space_violations(rel_path, j, file),
       !.largest_files = @ \o oversized_entry(rel_path, j, file)]

RECURSIVE scan_files(_, _, _, _)
scan_files(acc, rel_path, j, files) ==
    IF j > Len(files) THEN acc
    ELSE scan_files(scan_file(acc, rel_path, j, files[j]), rel_path, j + 1, files)

\* what the body of "for root, dirs, files in os.walk(...)" adds to the
\* locals of scan_directory for one directory
scan_dir(rel_path, files) ==
    LET acc == [total_files |-> 0,
                naming_violations |->
                    IF too_many_files(files)
                    THEN <<[what |-> "Too many files", pattern |-> "",
                            path |-> <<rel_path, 0>>]>>
                    ELSE << >>,
                largest_files |-> << >>]
    IN  scan_files(acc, rel_path, 1, files)

\* the loop over the walk: every directory extends the locals in turn
RECURSIVE scan_dirs(_, _, _)
scan_dirs(acc, d, tree) ==
    IF d > Len(tree) THEN acc
    ELSE LET more == scan_dir(d, tree[d])
         IN  scan_dirs(
                 [total_files |-> acc.total_files + more.total_files,
                  naming_violations |->
                      acc.naming_violations \o more.naming_violations,
                  largest_files |-> acc.largest_files \o more.largest_files],
                 d + 1, tree)

\* largest_files.sort(key=lambda x: x['size_mb'], reverse=True): a stable
\* sort, so the entries of the greatest size_mb come first, in the order
\* they were found in, then those of the next size_mb, and so on
RECURSIVE by_size(_, _)
by_size(l, sizes) ==
    IF sizes = {} THEN << >>
    ELSE LET m == max(sizes)
         IN  SelectSeq(l, LAMBDA x : x.size_mb = m) \o by_size(l, sizes \ {m})

sort_by_size(l) == by_size(l, {l[i].size_mb : i \in 1..Len(l)})

\* the mutant keeps the last entries of the list, the newest violations
keep_last(list, n) ==
    SubSeq(list, Len(list) - min(n, Len(list)) + 1, Len(list))

\* list[:n]
keep_first(list, n) == SubSeq(list, 1, min(n, Len(list)))

\* what the loop leaves in its locals, and the fields of the snapshot made
\* of them
scan_lists(tree) ==
    LET acc == scan_dirs([total_files |-> 0, naming_violations |-> << >>,
                          largest_files |-> << >>], 1, tree)
        largest_files == keep_first(sort_by_size(acc.largest_files), LargestKept)
    IN  [found |-> acc.naming_violations,
         snapshot |->
            [total_files |-> acc.total_files,
             naming_violations |-> keep_first(acc.naming_violations, ViolationsKept),
             largest_files |-> largest_files]]

\* the snapshot as the scorer reads it: len() of the two lists
as_scored(s) ==
    [naming_violations |-> Len(s.naming_violations),
     depth_distribution |-> {0},
     largest_files |-> Len(s.largest_files),
     file_types |-> 1]

\* scan_directory() on a tree, and the score analyze_with_llm takes of the
\* snapshot
scan_lists_call ==
    /\ last_call.op = "none"
    /\ \E tree \in ListedTrees :
         LET out == scan_lists(tree)
         IN  last_call' =
               [op |-> "scan_directory", tree |-> tree,
                found |-> out.found, snapshot |-> out.snapshot,
                violation_term |-> violation_term(as_scored(out.snapshot)),
                messiness_score |->
                    _calculate_messiness_score(as_scored(out.snapshot), standards)]
    /\ UNCHANGED <<scorerVars, tableVars, cacheVars, EMBEDDINGS_AVAILABLE,
                   monitorVars, threadVars>>

NextLists == scan_lists_call

SpecLists == InitHash /\ [][NextLists]_vars

----------------------------------------------------------------------------
(* The store alone: a single caller of LocalDatabase *)

StoreScores == {0, 100}

Embeddings == {1, 2}

StoreHasRoom == Len(snapshots) + Len(analyses) + Len(embeddings) < MaxCalls

\* def get_history(self, limit: int = 10)
DefaultLimit == 10

\* ids a caller may pass: those of the stored snapshots and one that is not
CallerIds == 1..(Len(snapshots) + 1)

\* LocalDatabase.save_snapshot(snapshot, messiness_score)
store_save_snapshot ==
    /\ StoreHasRoom
    /\ \E s \in ScanSnapshots, sc \in StoreScores : insert_snapshot(s, sc)
    /\ last_call' = [op |-> "save_snapshot",
                     snapshot_id |-> last_insert_rowid',
                     outcome |-> "returned"]
    /\ UNCHANGED <<scorerVars, cacheVars, EMBEDDINGS_AVAILABLE,
                   monitorVars, threadVars>>

\* LocalDatabase.save_analysis(snapshot_id, analysis, alert)
store_save_analysis ==
    /\ StoreHasRoom
    /\ \E sid \in CallerIds, alert \in BOOLEAN :
         IF fk_accepts(sid)
         THEN /\ insert_analysis(sid, "narrative", alert)
              /\ last_call' = [op |-> "save_analysis", snapshot_id |-> sid,
                               outcome |-> "returned"]
         ELSE /\ UNCHANGED tableVars
              /\ last_call' = [op |-> "save_analysis", snapshot_id |-> sid,
                               outcome |-> "IntegrityError"]
    /\ UNCHANGED <<scorerVars, cacheVars, EMBEDDINGS_AVAILABLE,
                   monitorVars, threadVars>>

\* LocalDatabase.save_embedding(snapshot_id, embedding)
store_save_embedding ==
    /\ StoreHasRoom
    /\ \E sid \in CallerIds, e \in Embeddings :
         IF fk_accepts(sid)
         THEN /\ insert_embedding(sid, e)
              /\ last_call' = [op |-> "save_embedding", snapshot_id |-> sid,
                               outcome |-> "returned"]
         ELSE /\ UNCHANGED tableVars
              /\ last_call' = [op |-> "save_embedding", snapshot_id |-> sid,
                               outcome |-> "IntegrityError"]
    /\ UNCHANGED <<scorerVars, cacheVars, EMBEDDINGS_AVAILABLE,
                   monitorVars, threadVars>>

\* limits a caller of get_history passes: its default and a smaller one
HistoryLimits == {1, DefaultLimit}

\* LocalDatabase.get_history(limit)
store_get_history ==
    /\ \E limit \in HistoryLimits :
         last_call' = [op |-> "get_history", limit |-> limit,
                       outcome |-> get_history(snapshots, analyses, limit)]
    /\ UNCHANGED <<scorerVars, tableVars, cacheVars, EMBEDDINGS_AVAILABLE,
                   monitorVars, threadVars>>

\* LocalDatabase.get_stats()
store_get_stats ==
    /\ last_call' = [op |-> "get_stats", outcome |-> get_stats(snapshots)]
    /\ UNCHANGED <<scorerVars, tableVars, cacheVars, EMBEDDINGS_AVAILABLE,
                   monitorVars, threadVars>>

\* LocalDatabase.get_all_embeddings()
store_get_all_embeddings ==
    /\ last_call' = [op |-> "get_all_embeddings",
                     outcome |-> get_all_embeddings(embeddings, snapshots)]
    /\ UNCHANGED <<scorerVars, tableVars, cacheVars, EMBEDDINGS_AVAILABLE,
                   monitorVars, threadVars>>

InitStoreAlone ==
    /\ standards = [max_depth |-> DefaultMaxDepth]
    /\ InitScorer
    /\ InitStore
    /\ InitThreads
    /\ EMBEDDINGS_AVAILABLE = FALSE

NextStore ==
    \/ store_save_snapshot
    \/ store_save_analysis
    \/ store_save_embedding
    \/ store_get_history
    \/ store_get_stats
    \/ store_get_all_embeddings

SpecStore == InitStoreAlone /\ [][NextStore]_vars

----------------------------------------------------------------------------
(* Properties of the scorer (checked under SpecScore) *)

Scored == last_call.op = "_calculate_messiness_score"

\* C1: for every snapshot and every policy the messiness score lies in the
\* closed range [0, 10] (0..100 tenths), however large the violation count,
\* the observed depth, the oversized-file count or the number of file types.
C1_ScoreInRange == 0 <= score /\ score <= 100

\* a snapshot whose terms add up to more than 10 has been scored
C1_Witness ==
    /\ Scored
    /\ violation_term(snapshot) + depth_term(snapshot, standards)
         + oversized_term(snapshot) + diversity_term(snapshot) > 100
    /\ score = 100

\* the snapshot with one of its three counts replaced by a larger value
MoreViolations(s) ==
    {[s EXCEPT !.naming_violations = n] :
        n \in {m \in 0..MaxViolations : m > s.naming_violations}}

Deeper(s) ==
    {[s EXCEPT !.depth_distribution = 0..d] :
        d \in {e \in 0..MaxDepthObs : e > max_depth_observed(s)}}

MoreOversized(s) ==
    {[s EXCEPT !.largest_files = n] :
        n \in {m \in 0..MaxLarge : m > s.largest_files}}

\* C2: the score is non-decreasing in the violation count, in the depth
\* overshoot and in the oversized-file count: a snapshot that differs from
\* the scored one only by a larger value of one of them scores at least as
\* much.
C2_Monotone ==
    \A s2 \in MoreViolations(snapshot) \cup Deeper(snapshot) \cup MoreOversized(snapshot) :
        _calculate_messiness_score(s2, standards) >= score

\* a scored snapshot beyond the policy's depth that a deeper one outscores
C2_Witness ==
    /\ Scored
    /\ max_depth_observed(snapshot) > standards.max_depth
    /\ \E s2 \in Deeper(snapshot) :
         _calculate_messiness_score(s2, standards) > score

\* C3: the score equals min(10, min(0.5 * violations, 4.0)
\*   + 0.5 * max(0, max_depth_observed - policy.max_depth)
\*   + min(0.3 * oversized_files, 2.0) + (1.0 if file types > 15 else 0.0)),
\* with max_depth_observed the largest key of depth_distribution (0 when it
\* is empty); nothing else contributes.
C3_Formula ==
    Scored =>
      LET violations == snapshot.naming_violations
          observed == IF snapshot.depth_distribution = {} THEN 0
                      ELSE CHOOSE d \in snapshot.depth_distribution :
                             \A e \in snapshot.depth_distribution : e <= d
          overshoot == observed - standards.max_depth
          oversized == snapshot.largest_files
          sum == (IF 5 * violations < 40 THEN 5 * violations ELSE 40)
                 + 5 * (IF overshoot > 0 THEN overshoot ELSE 0)
                 + (IF 3 * oversized < 20 THEN 3 * oversized ELSE 20)
                 + (IF snapshot.file_types > 15 THEN 10 ELSE 0)
      IN  score = IF sum < 100 THEN sum ELSE 100

\* a scored snapshot in which every term contributes and two caps bind
C3_Witness ==
    /\ Scored
    /\ snapshot.naming_violations > 8
    /\ max_depth_observed(snapshot) > standards.max_depth
    /\ snapshot.largest_files >= 7
    /\ snapshot.file_types > 15
    /\ score < 100

----------------------------------------------------------------------------
(* Properties of scan_and_alert (checked under Spec) *)

\* C4: the alert flag an invocation returns equals the alert_triggered value
\* of the analysis row it wrote, and both are true exactly when the score
\* stored with its snapshot row is at least the threshold of that invocation.
C4_AlertMatchesThreshold ==
    \A r \in results :
        /\ r.analysis_rowid \in 1..Len(analyses)
        /\ r.snapshot_rowid \in 1..Len(snapshots)
        /\ analyses[r.analysis_rowid].alert_triggered = r.alert
        /\ r.alert = (snapshots[r.snapshot_rowid].messiness_score >= r.alert_threshold)

\* an invocation with a threshold below the default alerted on a score that
\* the default threshold would have let pass
C4_Witness ==
    \E r \in results :
        /\ r.alert_threshold < DefaultThreshold
        /\ r.messiness_score < DefaultThreshold
        /\ r.alert

\* C5: when the narrative service is unavailable or raises, the invocation
\* goes on: it stores a placeholder narrative, the snapshot and its score,
\* and the alert is computed from the score as for a successful narrative.
C5_NarrativeFailureTolerated ==
    /\ \A th \in Threads :
         (frame[th].llm \in {"raises", "unavailable"})
            => (pc[th] \in ScanSteps /\ frame[th].llm_analysis \in Placeholders)
    /\ \A r \in results :
         (r.llm \in {"raises", "unavailable"}) =>
            /\ r.llm_analysis \in Placeholders
            /\ r.analysis_rowid \in 1..Len(analyses)
            /\ r.snapshot_rowid \in 1..Len(snapshots)
            /\ analyses[r.analysis_rowid].llm_analysis = r.llm_analysis
            /\ snapshots[r.snapshot_rowid].messiness_score = r.messiness_score
            /\ r.messiness_score =
                 _calculate_messiness_score(
                     snapshots[r.snapshot_rowid].snapshot_data, standards)
            /\ r.alert = (r.messiness_score >= r.alert_threshold)
            /\ analyses[r.analysis_rowid].alert_triggered = r.alert

\* an invocation whose narrative call raised has returned with the alert set
C5_Witness ==
    \E r \in results : r.llm = "raises" /\ r.alert

IsPrefix(a, b) == Len(a) <= Len(b) /\ SubSeq(b, 1, Len(a)) = a

Has(done, step) == \E i \in 1..Len(done) : done[i] = step

\* an invocation that returned has stored its snapshot with its score, and
\* its narrative
Persisted(r) ==
    /\ r.snapshot_rowid \in 1..Len(snapshots)
    /\ r.analysis_rowid \in 1..Len(analyses)
    /\ snapshots[r.snapshot_rowid].messiness_score = r.messiness_score
    /\ analyses[r.analysis_rowid].llm_analysis = r.llm_analysis
    /\ analyses[r.analysis_rowid].snapshot_id = r.snapshot_rowid

NoEncoderNoRetrieval ==
    ~EMBEDDINGS_AVAILABLE =>
        /\ embeddings = << >>
        /\ cache = << >>
        /\ \A th \in Threads :
              /\ pc[th] # "retrieve"
              /\ ~Has(frame[th].done, "retrieve")
              /\ frame[th].context = << >>
        /\ \A r \in results :
              /\ Persisted(r)
              /\ ~Has(r.done, "retrieve")
              /\ ~Has(r.done, "add_snapshot")

StepOrder ==
    IF EMBEDDINGS_AVAILABLE
    THEN <<"scan", "retrieve", "generate", "score",
           "save_snapshot", "save_analysis", "add_snapshot">>
    ELSE <<"scan", "generate", "score", "save_snapshot", "save_analysis">>

----------------------------------------------------------------------------
(* Properties of the continuous monitor *)

\* C6: at most one background monitoring loop is running at any time.
C6_AtMostOneLoop == Cardinality({l \in Loops : LoopAlive(l)}) <= 1

\* C7 as claimed: after a stop request that no start follows, the loop
\* begins no new scan.  The flag is cleared exactly when the last request was
\* a stop, so the claim is that no loop begins a scan while it is cleared.
C7_NoScanAfterStop ==
    [][\A l \in Loops :
         (pc[l] = "scan" /\ pc'[l] = after_scan) => monitoring_active]_vars

\* C7 as amended: a stop request changes nothing but the flag, so no scan in
\* flight is cut short; a loop goes into a scan only from reading the flag
\* as set, and once it reads the flag as cleared it exits; and while the flag
\* stays cleared every loop terminates.
C7_StopHonouredBetweenScans ==
    /\ [][(monitoring_active /\ ~monitoring_active')
            => UNCHANGED <<pc, frame, results, tableVars, cache>>]_vars
    /\ [][\A l \in Loops :
            /\ (pc[l] # "scan" /\ pc'[l] = "scan")
                 => (pc[l] = "check" /\ monitoring_active)
            /\ (pc[l] = "check" /\ ~monitoring_active /\ pc'[l] # "check")
                 => pc'[l] = "exited"]_vars
    /\ (~monitoring_active) ~> (monitoring_active \/ \A l \in Loops : ~LoopAlive(l))

\* the flag is cleared, a loop that completed a scan has exited
C7_Witness ==
    /\ ~monitoring_active
    /\ results # {}
    /\ \E l \in Loops : pc[l] = "exited"

\* the status a user of the monitor can observe: the header of the TUI, and
\* the answer of /api/monitor/start
monitor_status == IF monitoring_active THEN "active" ELSE "idle"

\* C8: when an iteration fails the loop stops and the failure is surfaced
\* through the observable monitor status: once the loop has died of a
\* failure and none runs, the monitor is not shown as active.
C8_FailureSurfaced ==
    ((\E l \in Loops : pc[l] = "failed") /\ (\A l \in Loops : ~LoopAlive(l)))
        => monitor_status # "active"

----------------------------------------------------------------------------
(* Properties of the store *)

\* C9: save_analysis with a snapshot_id that is not in the store fails and
\* adds no analysis row.
C9_DanglingAnalysisRejected ==
    /\ (last_call.op = "save_analysis" /\ last_call.snapshot_id \notin SnapshotIds)
          => last_call.outcome # "returned"
    /\ \A i \in 1..Len(analyses) : analyses[i].snapshot_id \in SnapshotIds

ReadOps == {"get_history", "get_stats", "get_all_embeddings"}

\* C11: the store is append-only: no call of save_snapshot, save_analysis,
\* save_embedding, get_history, get_stats or get_all_embeddings modifies or
\* removes a stored snapshot, analysis or embedding row, and the three read
\* operations leave every table as it was.
C11_AppendOnly ==
    [][/\ IsPrefix(snapshots, snapshots')
       /\ IsPrefix(analyses, analyses')
       /\ IsPrefix(embeddings, embeddings')
       /\ (last_call'.op \in ReadOps)
            => UNCHANGED <<snapshots, analyses, embeddings>>]_vars

\* a read was answered from a store that holds a row of every kind
C11_Witness ==
    /\ last_call.op \in ReadOps
    /\ snapshots # << >> /\ analyses # << >> /\ embeddings # << >>

\* C13: after N snapshots were appended to an empty store, get_stats
\* reports total_scans = N and, for N >= 1,
\* min_messiness <= avg_messiness <= max_messiness.
C13_StatsOfAppended ==
    last_call.op = "get_stats" =>
        /\ last_call.outcome.total_scans = Len(snapshots)
        /\ \A i \in 1..Len(snapshots) : snapshots[i].id = i
        /\ Len(snapshots) >= 1 =>
              /\ last_call.outcome.min_messiness <= last_call.outcome.avg_messiness
              /\ last_call.outcome.avg_messiness <= last_call.outcome.max_messiness

\* get_stats answered over snapshots of different scores, with an average
\* that is neither of them and had to be rounded
C13_Witness ==
    /\ last_call.op = "get_stats"
    /\ last_call.outcome.total_scans >= 2
    /\ last_call.outcome.min_messiness < last_call.outcome.avg_messiness
    /\ last_call.outcome.avg_messiness < last_call.outcome.max_messiness
    /\ (10 * sum_scores(snapshots)) % Len(snapshots) # 0

----------------------------------------------------------------------------
(* Properties of LocalVectorStore.search (checked under SpecSearch) *)

Searched == last_call.op = "search"

Returned == {last_call.outcome[i] : i \in 1..Len(last_call.outcome)}

Cached == {cache[i] : i \in 1..Len(cache)}

\* C14: search on a cache of n entries returns min(k, n) of them, ordered by
\* non-increasing similarity to the query and none less similar than an
\* entry left out; with k >= n it returns every entry, on an empty cache it
\* returns the empty sequence.
C14_TopKByDescendingSimilarity ==
    Searched =>
        LET out == last_call.outcome
        IN  /\ Len(out) = min(last_call.top_k, Len(cache))
            /\ Returned \subseteq Cached
            /\ Cardinality(Returned) = Len(out)
            /\ \A i, j \in 1..Len(out) :
                  i < j => similarity(out[i].embedding) >= similarity(out[j].embedding)
            /\ \A r \in Returned, c \in Cached \ Returned :
                  similarity(r.embedding) >= similarity(c.embedding)
            /\ last_call.top_k >= Len(cache) => Returned = Cached
            /\ cache = << >> => out = << >>

\* a search asked for more than the cache holds and got every entry back,
\* in another order than the cache has them
C14_Witness ==
    /\ Searched
    /\ last_call.top_k > Len(cache)
    /\ Len(last_call.outcome) >= 2
    /\ last_call.outcome # cache

\* C15 as claimed: of two returned entries of equal similarity the more
\* recently stored one comes first.
C15_TiesNewestFirst ==
    Searched =>
        LET out == last_call.outcome
        IN  \A i, j \in 1..Len(out) :
              (i < j /\ similarity(out[i].embedding) = similarity(out[j].embedding))
                 => out[i].snapshot_id > out[j].snapshot_id

\* C15 as amended: entries of equal similarity keep the order of the cache,
\* so the one stored earlier comes first; an entry that is left out while
\* one of equal similarity is returned is the more recently stored of the two.
C15_TiesOldestFirst ==
    Searched =>
        LET out == last_call.outcome
        IN  /\ \A i, j \in 1..Len(out) :
                  (i < j /\ similarity(out[i].embedding) = similarity(out[j].embedding))
                     => out[i].snapshot_id < out[j].snapshot_id
            /\ \A r \in Returned, c \in Cached \ Returned :
                  similarity(r.embedding) = similarity(c.embedding)
                     => r.snapshot_id < c.snapshot_id

\* a search returned two entries of equal similarity
C15_Witness ==
    /\ Searched
    /\ \E i, j \in 1..Len(last_call.outcome) :
         /\ i < j
         /\ similarity(last_call.outcome[i].embedding)
              = similarity(last_call.outcome[j].embedding)

----------------------------------------------------------------------------
(* Properties of the trend (checked under SpecTrend) *)

\* the margin of create_trend_panel, 0.5, in tenths
Epsilon == 5

Summarised == last_call.op = "get_statistics_summary"

\* a/b < c/d - e for fractions a/b, c/d of tenths and a margin e in tenths
lower_by_more_than(a, b, e) == a.num * b.den < b.num * a.den - e * a.den * b.den

\* C16: the trend is improving when the recent 7-day mean is lower than the
\* prior 7-day mean by more than a small epsilon, worsening when it is higher
\* by more than epsilon, and stable otherwise.
C16_TrendWithEpsilon ==
    (Summarised /\ last_call.recent # << >> /\ last_call.previous # << >>) =>
        LET r == last_call.outcome.recent_avg
            p == last_call.outcome.previous_avg
        IN  last_call.outcome.trend =
              IF lower_by_more_than(r, p, Epsilon) THEN "improving"
              ELSE IF lower_by_more_than(p, r, Epsilon) THEN "worsening"
              ELSE "stable"

----------------------------------------------------------------------------
(* Properties of the exported report (checked under SpecExport) *)

\* C17: after K completed scans the report that export_report wrote, parsed
\* again, has statistics.total_scans = K and a recent_history list of
\* min(K, 50) entries.
C17_ReportRoundTrip ==
    last_call.op = "export_report" =>
        /\ last_call.outcome["statistics"].total_scans = Len(snapshots)
        /\ Len(last_call.outcome["recent_history"]) = min(Len(snapshots), 50)

----------------------------------------------------------------------------
(* Properties of the structure hash (checked under SpecHash) *)

\* the file_types dictionary as the mapping it is, whatever its order
mapping_of(items) ==
    [k \in {items[i].key : i \in 1..Len(items)} |->
       (CHOOSE it \in {items[i] : i \in 1..Len(items)} : it.key = k).value]

\* a text that the two counts and the mapping alone determine
fingerprint(files, dirs, types) ==
    LET keys == SelectSeq(SortedKeys, LAMBDA k : k \in DOMAIN types)
    IN  <<[key |-> "dirs", value |-> dirs],
          [key |-> "files", value |-> files],
          [key |-> "types",
           value |-> [n \in 1..Len(keys) |->
                        [key |-> keys[n], value |-> types[keys[n]]]]]>>

\* the walk with its entries met in the order p
revisited(walk, p) == [i \in 1..Len(walk) |-> walk[p[i]]]

\* C18: structure_hash is a function of total_files, total_dirs and the
\* file_types mapping only: it is the digest of a text these three determine,
\* and the same for every order in which the entries of the tree are visited,
\* whatever the insertion order of file_types, the names and the violations.
C18_HashOfCountsAndTypes ==
    last_call.op = "scan_directory" =>
        /\ last_call.outcome.structure_hash =
              md5(fingerprint(last_call.outcome.total_files,
                              last_call.outcome.total_dirs,
                              mapping_of(last_call.outcome.file_types)))
        /\ \A p \in Permutations(1..Len(last_call.walk)) :
              scan_counts(revisited(last_call.walk, p)).structure_hash
                 = last_call.outcome.structure_hash

\* a scan that found a violation and met two types in an order that another
\* visit of the same tree reverses
C18_Witness ==
    /\ last_call.op = "scan_directory"
    /\ last_call.outcome.naming_violations >= 1
    /\ \E p \in Permutations(1..Len(last_call.walk)) :
         scan_counts(revisited(last_call.walk, p)).file_types
            # last_call.outcome.file_types

\* no scan_and_alert is under way and every one that stored a snapshot has
\* returned
AllScansCompleted ==
    /\ \A t \in Threads : pc[t] \notin ScanSteps
    /\ Cardinality(results) = Len(snapshots)

AnalysesOf(snapshot_id) ==
    {i \in 1..Len(analyses) : analyses[i].snapshot_id = snapshot_id}

\* C12: after any sequence of completed scan_and_alert invocations every
\* analysis row references a stored snapshot, every snapshot has exactly one
\* analysis row, and there are at most as many embedding rows as snapshots.
C12_OneAnalysisPerSnapshot ==
    AllScansCompleted =>
        /\ \A i \in 1..Len(analyses) : analyses[i].snapshot_id \in SnapshotIds
        /\ \A id \in SnapshotIds : Cardinality(AnalysesOf(id)) = 1
        /\ Len(embeddings) <= Len(snapshots)

\* ids that save_snapshot calls have returned and that are still held
ReturnedIds ==
    {frame[t].snapshot_id :
        t \in {u \in Threads : pc[u] \in {"save_analysis", "add_snapshot"}}}
    \cup {r.snapshot_id : r \in results}

\* C10: every save_snapshot call returns an identifier strictly greater than
\* every identifier an earlier save_snapshot call returned.
C10_ReturnedIdsIncrease ==
    [][\A th \in Threads :
         (pc[th] = "lastrowid" /\ pc'[th] = "save_analysis")
            => \A id \in ReturnedIds : frame'[th].snapshot_id > id]_vars

----------------------------------------------------------------------------
(* Order of the writes of one scan_and_alert invocation *)

EmbeddingsOf(snapshot_id) ==
    {i \in 1..Len(embeddings) : embeddings[i].snapshot_id = snapshot_id}

\* the step appends one snapshot row, with the score of the invocation that
\* writes it, and that invocation has written nothing else yet
SnapshotWrittenFirst ==
    (snapshots' # snapshots) =>
        /\ Len(snapshots') = Len(snapshots) + 1
        /\ \E th \in Threads :
             /\ pc[th] = "save_snapshot" /\ pc'[th] # pc[th]
             /\ ~Has(frame[th].done, "save_analysis")
             /\ snapshots'[Len(snapshots')].messiness_score
                  = frame[th].messiness_score
        /\ UNCHANGED <<analyses, embeddings>>

\* the step appends one analysis row: the invocation that writes it has
\* stored its snapshot, and the id it names is that of a stored snapshot
AnalysisWrittenSecond ==
    (analyses' # analyses) =>
        LET a == analyses'[Len(analyses')]
        IN  /\ Len(analyses') = Len(analyses) + 1
            /\ a.snapshot_id \in SnapshotIds
            /\ \E th \in Threads :
                 /\ pc[th] = "save_analysis" /\ pc'[th] # pc[th]
                 /\ Has(frame[th].done, "save_snapshot")
                 /\ a.snapshot_id = frame[th].snapshot_id
            /\ UNCHANGED <<snapshots, embeddings>>

\* the step appends one embedding row: there is an encoder, the invocation
\* that writes it has stored its snapshot and its analysis, and the id it
\* names is that of a stored snapshot
EmbeddingWrittenLast ==
    (embeddings' # embeddings) =>
        LET e == embeddings'[Len(embeddings')]
        IN  /\ Len(embeddings') = Len(embeddings) + 1
            /\ EMBEDDINGS_AVAILABLE
            /\ e.snapshot_id \in SnapshotIds
            /\ \E th \in Threads :
                 /\ pc[th] = "add_snapshot" /\ pc'[th] # pc[th]
                 /\ Has(frame[th].done, "save_snapshot")
                 /\ Has(frame[th].done, "save_analysis")
                 /\ e.snapshot_id = frame[th].snapshot_id
            /\ UNCHANGED <<snapshots, analyses>>

\* C21: within one scan_and_alert invocation the snapshot (with its score)
\* is persisted first, then the analysis, then the embedding when an encoder
\* is available; an analysis or an embedding is never written with a
\* snapshot id that has not already been stored.
C21_SnapshotThenAnalysisThenEmbedding ==
    [][SnapshotWrittenFirst /\ AnalysisWrittenSecond /\ EmbeddingWrittenLast]_vars

\* with an encoder an invocation has returned with all three rows stored
\* and another one has stored its snapshot and not yet its analysis
C21_Witness ==
    /\ EMBEDDINGS_AVAILABLE
    /\ \E r \in results :
         /\ AnalysesOf(r.snapshot_id) # {}
         /\ EmbeddingsOf(r.snapshot_id) # {}
    /\ \E th \in Threads :
         /\ pc[th] = "save_analysis"
         /\ frame[th].snapshot_id \in SnapshotIds
         /\ AnalysesOf(frame[th].snapshot_id) = {}

----------------------------------------------------------------------------
(* Invocations on the shared store *)

\* C22: when a foreground scan_and_alert and the monitor's scan_and_alert
\* interleave on the shared store, each invocation adds exactly one snapshot
\* and exactly one analysis, and each analysis references the snapshot id
\* assigned to the snapshot of its own invocation.
C22_OwnSnapshotReferenced ==
    /\ \A r \in results :
         /\ r.snapshot_rowid \in 1..Len(snapshots)
         /\ r.analysis_rowid \in 1..Len(analyses)
         /\ r.snapshot_id = r.snapshot_rowid
         /\ analyses[r.analysis_rowid].snapshot_id = r.snapshot_rowid
    /\ \A q, r \in results :
         (q.snapshot_rowid = r.snapshot_rowid
            \/ q.analysis_rowid = r.analysis_rowid) => q = r

----------------------------------------------------------------------------
(* Searches beside reloads of the cache *)

\* a search that has returned saw one whole list: one of those self.cache
\* referred to between its start and its return
SearchSawWholeCache ==
    \A th \in Threads :
        (pc[th] = "idle" /\ frame[th].returned) =>
            \E j \in frame[th].first..frame[th].last :
                frame[th].outcome = search(lists[j], TOP_K)

\* no step changes a list object that exists; a step that changes what
\* self.cache refers to binds it to a new list, which holds every embedding
\* of the store
ReloadThenSwap ==
    /\ \A j \in 1..Len(lists) : lists'[j] = lists[j]
    /\ cache' # cache =>
         /\ lists' = Append(lists, cache')
         /\ cache' = get_all_embeddings(embeddings, snapshots)

\* C23: a search that runs concurrently with a cache reload never observes a
\* partially built cache: the reload builds a complete new list and replaces
\* the cache reference in one step, never mutating in place the list a search
\* may be iterating, so every search sees either the whole cache from before
\* the reload or the whole cache after it.
C23_SearchNeverSeesPartialCache ==
    /\ []SearchSawWholeCache
    /\ [][ReloadThenSwap]_vars

\* a search began on one list, the cache was reloaded while it ran, and it
\* returned what the list from before the reload holds, which is not what
\* the reloaded one would have given
C23_Witness ==
    /\ pc[Searcher] = "idle"
    /\ frame[Searcher].returned
    /\ frame[Searcher].first < frame[Searcher].last
    /\ frame[Searcher].outcome = search(lists[frame[Searcher].first], TOP_K)
    /\ frame[Searcher].outcome # search(lists[frame[Searcher].last], TOP_K)

\* the step with which an add_snapshot call returns
AddSnapshotCompletes(th) ==
    pc[th] = "append" /\ pc'[th] = "add_snapshot"

\* C24: after every LocalVectorStore.add_snapshot completes, the in-memory
\* cache has been reloaded in full and equals the complete list of embeddings
\* in the store, including the embedding just inserted; the cache is never
\* updated incrementally.
C24_CacheEqualsStoreAfterAdd ==
    [][\A th \in Threads :
         AddSnapshotCompletes(th) =>
            /\ cache' = get_all_embeddings(embeddings', snapshots')
            /\ Len(cache') = Len(embeddings')
            /\ lists' = Append(lists, cache')]_vars

----------------------------------------------------------------------------
(* Properties of the lists scan_directory returns (checked under SpecLists) *)

Listed == last_call.op = "scan_directory"

\* every violation the standards find in a tree, told from the tree alone
AllViolations(tree) ==
    {[what |-> "Too many files", pattern |-> "", path |-> <<d, 0>>] :
        d \in {e \in 1..Len(tree) : Len(tree[e]) > max_files_per_dir}}
    \cup UNION {UNION {
          {[what |-> "Naming violation", pattern |-> p, path |-> <<d, j>>] :
              p \in tree[d][j].contains}
          \cup (IF tree[d][j].space
                THEN {[what |-> "Space in filename", pattern |-> " ",
                       path |-> <<d, j>>]}
                ELSE {}) :
          j \in 1..Len(tree[d])} : d \in 1..Len(tree)}

\* where a violation of one file stands among the violations of that file
PlaceInFile(v) ==
    CASE v.what = "Too many files" -> 0
      [] v.what = "Naming violation" ->
            CHOOSE k \in 1..Len(forbidden_patterns) : forbidden_patterns[k] = v.pattern
      [] v.what = "Space in filename" -> Len(forbidden_patterns) + 1

\* u is discovered before v: an earlier directory of the walk, or an earlier
\* file of the directory (the directory itself before its files), or an
\* earlier check of the file
DiscoveredBefore(u, v) ==
    \/ u.path[1] < v.path[1]
    \/ u.path[1] = v.path[1] /\ u.path[2] < v.path[2]
    \/ u.path = v.path /\ PlaceInFile(u) < PlaceInFile(v)

\* C25: the naming_violations list of every snapshot has at most 20 entries
\* and is the first 20 violations in discovery order of the scan (all of
\* them when fewer than 20 were found); the score's violation term is
\* computed from this capped list.
C25_FirstTwentyViolations ==
    Listed =>
        LET kept == last_call.snapshot.naming_violations
            all == AllViolations(last_call.tree)
            Kept == {kept[k] : k \in 1..Len(kept)}
        IN  /\ Len(kept) <= 20
            /\ Len(kept) = min(20, Cardinality(all))
            /\ Kept \subseteq all
            /\ \A k \in 1..(Len(kept) - 1) : DiscoveredBefore(kept[k], kept[k + 1])
            /\ \A v \in all :
                 (\E u \in Kept : DiscoveredBefore(v, u)) => v \in Kept
            /\ last_call.violation_term = min(5 * Len(kept), 40)

\* a scan found more than 20 violations, of all three sorts, and the list of
\* the snapshot ends before the last of them
C25_Witness ==
    /\ Listed
    /\ Len(last_call.found) > 20
    /\ Len(last_call.snapshot.naming_violations) = 20
    /\ \A w \in {"Too many files", "Naming violation", "Space in filename"} :
         \E k \in 1..20 : last_call.snapshot.naming_violations[k].what = w
    /\ last_call.found[Len(last_call.found)]
         # last_call.snapshot.naming_violations[20]

\* the files of a tree, each by its directory and its place in it
FilePaths(tree) ==
    UNION {{<<d, j>> : j \in 1..Len(tree[d])} : d \in 1..Len(tree)}

TooManyFor(d) ==
    {k \in 1..Len(last_call.found) :
        /\ last_call.found[k].what = "Too many files"
        /\ last_call.found[k].path[1] = d}

\* one folder holding 25 cleanly named files
TwentyFiveCleanFiles ==
    <<[j \in 1..25 |-> CHOOSE f \in ListedFiles : f.name = "main.py"]>>

\* C27: for each visited directory, the scan emits exactly one 'too many
\* files' violation when the number of its direct file children exceeds
\* max_files_per_dir and none when the count is at or below the limit; a
\* tree of one folder holding 25 cleanly named files under
\* max_files_per_dir = 20 yields exactly one such violation and a violation
\* term of 0.5.
C27_OneViolationPerCrowdedDir ==
    Listed =>
        /\ \A d \in 1..Len(last_call.tree) :
             Cardinality(TooManyFor(d)) =
                 IF Len(last_call.tree[d]) > max_files_per_dir THEN 1 ELSE 0
        /\ \A k \in 1..Len(last_call.found) :
             last_call.found[k].what = "Too many files"
                => last_call.found[k].path[1] \in 1..Len(last_call.tree)
        /\ last_call.tree = TwentyFiveCleanFiles =>
             /\ max_files_per_dir = 20
             /\ Len(last_call.found) = 1
             /\ Len(last_call.snapshot.naming_violations) = 1
             /\ last_call.snapshot.naming_violations[1].what = "Too many files"
             /\ last_call.violation_term = 5

\* the folder of 25 clean files has been scanned and scored
C27_Witness ==
    /\ Listed
    /\ last_call.tree = TwentyFiveCleanFiles
    /\ last_call.violation_term = 5

----------------------------------------------------------------------------
(* Retrieval within a scan *)

ContextIds(th) == {frame[th].context[i] : i \in 1..Len(frame[th].context)}

\* the step that answers the retrieval query of an invocation: the invocation
\* has stored nothing yet, and it gets the snapshots of at most 2 entries of
\* the cache, each of them a stored snapshot with an embedding
RetrievalBeforePersistence ==
    \A th \in Threads :
        (pc[th] = "retrieve" /\ pc'[th] # pc[th]) =>
            /\ ~Has(frame[th].done, "save_snapshot")
            /\ frame[th].snapshot_rowid = 0
            /\ Len(frame'[th].context) <= 2
            /\ Len(frame'[th].context) = min(2, Len(cache))
            /\ \A i \in 1..Len(frame'[th].context) :
                 /\ frame'[th].context[i] \in SnapshotIds
                 /\ EmbeddingsOf(frame'[th].context[i]) # {}

\* the snapshot an invocation has stored is not in its context, which holds
\* snapshots stored before it
OwnSnapshotNotInContext ==
    \A th \in Threads :
        frame[th].snapshot_rowid # 0 =>
            \A id \in ContextIds(th) : id < frame[th].snapshot_rowid

\* C28: retrieval precedes persistence in every scan: the context retrieved
\* for a scan consists of at most 2 snapshots, all of them persisted by
\* earlier scans, and never includes the snapshot currently being analysed.
C28_ContextFromEarlierScans ==
    /\ []OwnSnapshotNotInContext
    /\ [][RetrievalBeforePersistence]_vars

\* the cache held more than 2 snapshots, the invocation got 2 of them as its
\* context and has now stored its own snapshot
C28_Witness ==
    /\ Len(cache) > 2
    /\ Len(frame[Foreground].context) = 2
    /\ frame[Foreground].snapshot_rowid = Len(snapshots)
    /\ pc[Foreground] = "save_analysis"

----------------------------------------------------------------------------
(* The flag of the monitor and its loops *)

\* what /api/monitor/start answers to a request made now
start_answer == IF monitoring_active THEN "Already monitoring" ELSE "success"

\* C29: whenever the monitor reports itself active (its monitoring_active
\* flag is true) a background loop is alive: after a loop exits because an
\* iteration failed, the monitor is no longer reported active and a later
\* start request is accepted rather than rejected as 'Already monitoring'.
C29_ActiveMeansLoopAlive ==
    /\ monitoring_active => \E l \in Loops : LoopAlive(l)
    /\ (\A l \in Loops : pc[l] \in {"unborn", "failed"})
          => start_answer = "success"


\* C30: the recent 7-day window and the prior 7-day window used by the trend
\* computation are disjoint: no stored snapshot contributes to both the
\* recent mean and the previous mean, whatever its timestamp.
C30_WindowsDisjoint ==
    Summarised =>
        \A i \in 1..Len(last_call.recent), j \in 1..Len(last_call.previous) :
            last_call.recent[i].id # last_call.previous[j].id

====
